---- MODULE Spec2Model ----
(***************************************************************************)
(* A model of the Discord interactions worker (src/src/index.ts, lines     *)
(* 1-250) and of the earlier revision of the same worker kept in           *)
(* src/unnamed/part_000.  One request handler invocation (fetch) runs per  *)
(* request; a `question` command registers a background task through      *)
(* ctx.waitUntil, which calls the inference binding and then creates a     *)
(* workflow instance; the workflow's single step PATCHes the original      *)
(* message and is retried by the Workflows engine.                         *)
(*                                                                         *)
(* Strings are modelled as slices of named texts: [lit, arg, from, to] is  *)
(* the characters from..to-1 of the text produced by the literal or        *)
(* template `lit` instantiated with `arg`.                                 *)
(***************************************************************************)
EXTENDS Integers, Sequences, FiniteSets, TLC

\* ------------------------------------------------------------------ bounds
\* Number of requests the worker receives in one behaviour.
MaxReq == 2
\* Inference outputs are at most MAX_DISCORD_MESSAGE_LENGTH + MaxOver long.
MaxOver == 1

\* --------------------------------------------------------- program constants
MAX_DISCORD_MESSAGE_LENGTH == 2000
PING == 1
APPLICATION_COMMAND == 2
PONG == 1
DEFERRED_CHANNEL_MESSAGE == 5
CHANNEL_MESSAGE == 4
RetriesLimit == 5
RetriesDelay == 500

Reqs == 1..MaxReq
Revisions == {"index", "part_000"}

\* JavaScript's undefined / null for a string-valued field.
UNDEF == "<undefined>"

Min(a, b) == IF a < b THEN a ELSE b
Max(a, b) == IF a > b THEN a ELSE b

RECURSIVE Pow2(_)
Pow2(n) == IF n = 0 THEN 1 ELSE 2 * Pow2(n - 1)

\* ------------------------------------------------------------------ strings
Str(lit, arg, len) == [lit |-> lit, arg |-> arg, from |-> 0, to |-> len]
Len_(s) == s.to - s.from
NoStr == Str("", "", 0)

\* String.prototype.slice(start, end)
Slice(s, start, end) ==
    LET n == Len_(s)
        b == IF start < 0 THEN Max(n + start, 0) ELSE Min(start, n)
        e == IF end < 0 THEN Max(n + end, 0) ELSE Min(end, n)
    IN  [s EXCEPT !.from = s.from + b, !.to = s.from + Max(b, e)]

\* The string literals and templates of the program, with their lengths.
PleaseProvide == Str("Please provide a question!", "", 26)
CouldNotGenerate == Str("Sorry, I couldn't generate a response.", "", 38)
CouldNotProcess == Str("Sorry, I couldn't process your question.", "", 40)
Apology == Str("Sorry, I encountered an error while processing your question.", "", 61)
MissingCommandData == Str("Missing command data", "", 20)
\* Error messages are taken to be 12 characters long.
ApologyWithDetail(e) ==
    Str("Sorry, I encountered an error processing your question: ${message}", e, 56 + 12)
UnknownCommand(c) == Str("Unknown command: ${command}", c, 17 + 5)
\* (wave) stands for the waving-hand emoji, two UTF-16 code units long.
Hello(u) ==
    Str("Hello ${username}! (wave)", IF u = UNDEF THEN "there" ELSE u,
        10 + (IF u = UNDEF THEN 5 ELSE 3))
HelloWorld == Str("Hello world! (wave)", "", 15)
InternalServerError(e) == Str("Internal server error: ${message}", e, 23 + 12)
UnsupportedType(t) == Str("Unsupported interaction type: ${type}", ToString(t), 30 + 1)
MethodNotAllowed == Str("Method not allowed", "", 18)
MissingSignatureHeaders == Str("Missing signature headers", "", 25)
InvalidRequestSignature == Str("Invalid request signature", "", 25)
\* The text the inference binding generated for question q, n characters long.
Answer(q, n) == Str("answer", q, n)

\* ------------------------------------------------------------------- inputs
Methods == {"POST", "GET"}
HeaderVals == {UNDEF, "", "present"}
Usernames == {UNDEF, "bob"}
Names == {UNDEF, "hello", "question", "bogus"}
NoOptions == [defined |-> FALSE, list |-> <<>>]
Options ==
    {NoOptions} \cup
    {[defined |-> TRUE, list |-> l] : l \in {<<>>, <<"">>, <<"q1">>, <<"q2", "q1">>}}
\* The request body: not JSON at all, the JSON value null, or a JSON object.
\* Discord issues one token per interaction; request r carries application
\* id "app<r>" and token "token<r>".
NoBody ==
    [kind |-> "unread", type |-> 0, hasData |-> FALSE, name |-> UNDEF,
     options |-> NoOptions, application_id |-> UNDEF, token |-> UNDEF,
     username |-> UNDEF]
Bodies(r) ==
    {[NoBody EXCEPT !.kind = "invalid"], [NoBody EXCEPT !.kind = "null"]} \cup
    {b \in [kind : {"object"}, type : {1, 2, 3}, hasData : BOOLEAN, name : Names,
            options : Options, application_id : {"app" \o ToString(r)},
            token : {"token" \o ToString(r)},
            username : Usernames] :
        ~b.hasData => (b.name = UNDEF /\ b.options = NoOptions)}
VerifyOutcomes == {"true", "false", "throw"}
\* What env.AI.run does: it throws, or returns null, a primitive, an object
\* without a `response` field, or an object whose `response` is a string.
AiLens == {0} \cup {MAX_DISCORD_MESSAGE_LENGTH + k : k \in 0..MaxOver}
AiOutcomes ==
    {[kind |-> k, len |-> 0] : k \in {"throw", "null", "primitive", "noresponse"}} \cup
    {[kind |-> "response", len |-> n] : n \in AiLens}
\* How an attempt's PATCH ends: a 2xx status, another status, a rejected
\* fetch, or no answer within the step's timeout.
FetchOutcomes == {"ok", "http_error", "network_error", "timeout"}

\* -------------------------------------------------------------------- state
VARIABLES
    rev,        \* the revision of the worker that is deployed
    req,        \* per request: the handler's position and the request read so far
    response,   \* per request: the Response the handler returned
    stages,     \* per request: the stages of section 4.4 the handler has passed
    waitUntil,  \* per request: the number of promises given to ctx.waitUntil
    aiCalls,    \* per request: the number of env.AI.run calls
    bg,         \* per request: the background task registered with ctx.waitUntil;
                \* `creates` counts its WORKFLOW.create calls, `createThrew`
                \* those of them that threw
    workflows   \* per workflow id: the DiscordWorkflow instance; `patches` are
                \* the PATCH requests it issued, `failures` how many of them
                \* failed (fetch rejected, or a non-2xx status)

vars == <<rev, req, response, stages, waitUntil, aiCalls, bg, workflows>>

WfIds == Reqs \X {1, 2}
NoParams == [application_id |-> UNDEF, token |-> UNDEF, content |-> NoStr]
NoResponse == [status |-> 0, json |-> FALSE, type |-> 0, data |-> FALSE,
               content |-> NoStr, embeds |-> FALSE]

\* new Response(text, { status })
TextResponse(text, status) ==
    [status |-> status, json |-> FALSE, type |-> 0, data |-> FALSE,
     content |-> text, embeds |-> FALSE]
\* jsonResponse({ type }) and jsonResponse({ type, data: { content, embeds? } })
jsonResponse(type, hasData, content, embeds) ==
    [status |-> 200, json |-> TRUE, type |-> type, data |-> hasData,
     content |-> content, embeds |-> embeds]

FalsyOnlyUndefined(s) == s = UNDEF
\* !s, for a string or undefined
Falsy(s) == s = UNDEF \/ s = ""

MissingBothSignatureHeaders(signature, timestamp) ==
    Falsy(signature) /\ Falsy(timestamp)
\* `!signature || !timestamp`
MissingSignatureHeader(signature, timestamp) == Falsy(signature) \/ Falsy(timestamp)

isValidRequestNegated(outcome) == outcome # "true"
isValidRequestUnchecked(outcome) == TRUE
\* `isValidRequest`, from what verifyKey resolved to
isValidRequest(outcome) == outcome = "true"

InitFor(revision) ==
    /\ rev = revision
    /\ req = [r \in Reqs |->
                [pc |-> "new", method |-> UNDEF, signature |-> UNDEF,
                 timestamp |-> UNDEF, body |-> NoBody, verified |-> UNDEF]]
    /\ response = [r \in Reqs |-> NoResponse]
    /\ stages = [r \in Reqs |-> <<>>]
    /\ waitUntil = [r \in Reqs |-> 0]
    /\ aiCalls = [r \in Reqs |-> 0]
    /\ bg = [r \in Reqs |->
                [pc |-> "none", question |-> UNDEF, inCatch |-> FALSE,
                 aiFailed |-> FALSE, creates |-> 0, createThrew |-> 0,
                 params |-> NoParams]]
    /\ workflows = [w \in WfIds |->
                [status |-> "absent", params |-> NoParams, attempts |-> 0,
                 failures |-> 0, delays |-> <<>>, patches |-> <<>>]]

Init == InitFor("index")
InitPart000 == InitFor("part_000")
InitAny == \E revision \in Revisions : InitFor(revision)

\* ------------------------------------------------------------ the handlers
\* What a handler hands back: the Response, and whether it registered a
\* background task (and for which question) before returning.
Immediate(resp) == [response |-> resp, defer |-> FALSE, question |-> UNDEF]
Deferred(resp, q) == [response |-> resp, defer |-> TRUE, question |-> q]

\* interaction.data?.options?.[0]?.value
FirstOptionValue(interaction) ==
    IF ~interaction.hasData \/ ~interaction.options.defined
         \/ Len(interaction.options.list) = 0
    THEN UNDEF
    ELSE interaction.options.list[1]

\* interaction.data?.name
CommandName(interaction) == IF interaction.hasData THEN interaction.name ELSE UNDEF

handleQuestionCommand(interaction) ==
    LET userQuestion == FirstOptionValue(interaction)
    IN  IF Falsy(userQuestion)
        THEN Immediate(jsonResponse(CHANNEL_MESSAGE, TRUE, PleaseProvide, FALSE))
        ELSE Deferred(jsonResponse(DEFERRED_CHANNEL_MESSAGE, FALSE, NoStr, FALSE),
                      userQuestion)

HelloResponse(revision, interaction) ==
    IF revision = "index"
    THEN jsonResponse(CHANNEL_MESSAGE, TRUE, Hello(interaction.username), TRUE)
    ELSE jsonResponse(CHANNEL_MESSAGE, TRUE, HelloWorld, FALSE)

MissingCommandResponse(revision) ==
    IF revision = "index"
    THEN jsonResponse(CHANNEL_MESSAGE, TRUE, MissingCommandData, FALSE)
    ELSE TextResponse(MissingCommandData, 400)

UnknownCommandUnhandled(command) == TextResponse(UnknownCommand(command), 400)
\* the switch's default case
UnknownCommandResponse(command) ==
    jsonResponse(CHANNEL_MESSAGE, TRUE, UnknownCommand(command), FALSE)

handleCommand(revision, interaction) ==
    LET command == CommandName(interaction)
    IN  IF Falsy(command) THEN Immediate(MissingCommandResponse(revision))
        ELSE CASE command = "question" -> handleQuestionCommand(interaction)
               [] command = "hello" -> Immediate(HelloResponse(revision, interaction))
               [] OTHER -> Immediate(UnknownCommandResponse(command))

\* JSON.parse(body): the error it throws, or "" when the body parses.
ParseError(body) == IF body.kind = "invalid" THEN "SyntaxError" ELSE ""

InteractionKindByData(interaction) ==
    IF interaction.hasData THEN "command"
    ELSE IF interaction.type = PING THEN "ping" ELSE "unsupported"
\* switch (interaction.type)
InteractionKind(interaction) ==
    CASE interaction.type = PING -> "ping"
      [] interaction.type = APPLICATION_COMMAND -> "command"
      [] OTHER -> "unsupported"

\* fetch, from the verified body to the Response (lines 233-248): no await
\* in it waits on anything outside the handler.
Dispatch(revision, body) ==
    IF ParseError(body) # ""
    THEN Immediate(TextResponse(InternalServerError(ParseError(body)), 500))
    ELSE IF body.kind = "null"
    THEN Immediate(TextResponse(InternalServerError("TypeError"), 500))
    ELSE CASE InteractionKind(body) = "ping" ->
                Immediate(jsonResponse(PONG, FALSE, NoStr, FALSE))
           [] InteractionKind(body) = "command" -> handleCommand(revision, body)
           [] OTHER -> Immediate(TextResponse(UnsupportedType(body.type), 400))

\* The stages of section 4.4 a verified request passes.
DispatchStages(body) ==
    <<"verified">>
    \o (IF ParseError(body) = "" THEN <<"parsed">> ELSE <<>>)
    \o (IF body.kind = "object" /\ InteractionKind(body) # "unsupported"
        THEN <<"routed">> ELSE <<>>)
    \o <<"responded">>

Respond(r, resp, passed) ==
    /\ response' = [response EXCEPT ![r] = resp]
    /\ stages' = [stages EXCEPT ![r] = @ \o passed]

\* fetch, up to `await request.text()`
Fetch(r) ==
    /\ req[r].pc = "new"
    /\ \E method \in Methods, signature \in HeaderVals, timestamp \in HeaderVals :
         LET q == [req[r] EXCEPT !.method = method, !.signature = signature,
                                 !.timestamp = timestamp]
         IN  IF method # "POST"
             THEN /\ req' = [req EXCEPT ![r] = [q EXCEPT !.pc = "done"]]
                  /\ Respond(r, TextResponse(MethodNotAllowed, 405),
                             <<"received", "responded">>)
             ELSE IF MissingSignatureHeader(signature, timestamp)
             THEN /\ req' = [req EXCEPT ![r] = [q EXCEPT !.pc = "done"]]
                  /\ Respond(r, TextResponse(MissingSignatureHeaders, 401),
                             <<"received", "responded">>)
             ELSE /\ req' = [req EXCEPT ![r] = [q EXCEPT !.pc = "readingBody"]]
                  /\ response' = response
                  /\ stages' = [stages EXCEPT ![r] = @ \o <<"received">>]
    /\ UNCHANGED <<rev, waitUntil, aiCalls, bg, workflows>>

\* request.text() resolves and verifyKey is called with the raw body, which
\* nothing reads before JSON.parse does
ReadBody(r) ==
    /\ req[r].pc = "readingBody"
    /\ req' = [req EXCEPT ![r] = [@ EXCEPT !.pc = "verifying"]]
    /\ UNCHANGED <<rev, response, stages, waitUntil, aiCalls, bg, workflows>>

\* processAIResponse up to `await env.AI.run(...)`: it is called, and so calls
\* the inference binding, before handleQuestionCommand returns.
StartBackground(r, result) ==
    IF result.defer
    THEN /\ waitUntil' = [waitUntil EXCEPT ![r] = @ + 1]
         /\ aiCalls' = [aiCalls EXCEPT ![r] = @ + 1]
         /\ bg' = [bg EXCEPT ![r] = [@ EXCEPT !.pc = "awaitAI",
                                               !.question = result.question]]
    ELSE UNCHANGED <<waitUntil, aiCalls, bg>>

VerifyOutsideTry(revision) == FALSE
\* Whether the try block of fetch encloses the verifyKey call: index.ts calls
\* verifyKey inside the try (line 227), part_000 before it (line 95).
VerifyInsideTry(revision) == revision = "index"

\* verifyKey settles; the rest of fetch runs to its return
VerifyReturn(r) ==
    /\ req[r].pc = "verifying"
    /\ \E outcome \in VerifyOutcomes :
         CASE outcome = "throw" ->
                /\ req' = [req EXCEPT ![r] =
                            [@ EXCEPT !.verified = outcome,
                                      !.pc = IF VerifyInsideTry(rev)
                                             THEN "done" ELSE "threw"]]
                /\ IF VerifyInsideTry(rev)
                   THEN Respond(r, TextResponse(InternalServerError("VerifyError"), 500),
                                <<"responded">>)
                   ELSE UNCHANGED <<response, stages>>
                /\ UNCHANGED <<waitUntil, aiCalls, bg>>
           [] outcome # "throw" /\ ~isValidRequest(outcome) ->
                /\ req' = [req EXCEPT ![r] = [@ EXCEPT !.verified = outcome,
                                                      !.pc = "done"]]
                /\ Respond(r, TextResponse(InvalidRequestSignature, 401),
                           <<"responded">>)
                /\ UNCHANGED <<waitUntil, aiCalls, bg>>
           [] OTHER ->
                \E body \in Bodies(r) :
                    LET result == Dispatch(rev, body)
                    IN  /\ req' = [req EXCEPT ![r] = [@ EXCEPT !.verified = outcome,
                                                              !.body = body,
                                                              !.pc = "done"]]
                        /\ Respond(r, result.response, DispatchStages(body))
                        /\ StartBackground(r, result)
    /\ UNCHANGED <<rev, workflows>>

\* ------------------------------------------------------ the background task
\* `!result || typeof result !== 'object' || !('response' in result)`
InvalidAiResult(out) ==
    out.kind = "null" \/ out.kind = "primitive" \/ out.kind = "noresponse"

\* The try block from the inference result to the first WORKFLOW.create:
\* the error it throws ("" when none) and the content it hands to create.
TryBlock(revision, question, out) ==
    IF revision = "index"
    THEN IF out.kind = "throw" THEN [error |-> "AiError", content |-> NoStr]
         ELSE IF InvalidAiResult(out)
         THEN [error |-> "Invalid AI response format", content |-> NoStr]
         ELSE [error |-> "",
               \* result.response || "Sorry, I couldn't generate a response."
               content |-> IF out.len = 0 THEN CouldNotGenerate
                           ELSE Answer(question, out.len)]
    ELSE IF out.kind = "throw" THEN [error |-> "AiError", content |-> NoStr]
         \* 'response' in result throws a TypeError unless result is an object
         ELSE IF out.kind \in {"null", "primitive"}
         THEN [error |-> "TypeError", content |-> NoStr]
         ELSE [error |-> "",
               content |-> IF out.kind = "noresponse" THEN CouldNotProcess
                           ELSE Answer(question, out.len)]

CatchContentWithDetail(revision, error) == ApologyWithDetail(error)
\* The content the catch block hands to WORKFLOW.create.
CatchContent(revision, error) ==
    IF revision = "index" THEN Apology ELSE ApologyWithDetail(error)

WorkflowParamsOfFirst(interaction, content) ==
    [application_id |-> req[1].body.application_id, token |-> req[1].body.token,
     content |-> content]
WorkflowParamsSwapped(interaction, content) ==
    [application_id |-> interaction.token, token |-> interaction.application_id,
     content |-> content]
WorkflowParams(interaction, content) ==
    [application_id |-> interaction.application_id, token |-> interaction.token,
     content |-> content]

AIReturnAwaited(r) ==
    /\ bg[r].pc = "awaitAI"
    /\ bg' = [bg EXCEPT ![r] = [@ EXCEPT !.pc = "rejected", !.aiFailed = TRUE]]
    /\ response' = [response EXCEPT ![r] =
                      TextResponse(InternalServerError("AiError"), 500)]
    /\ UNCHANGED <<rev, req, stages, waitUntil, aiCalls, workflows>>
\* env.AI.run settles; processAIResponse runs to its next WORKFLOW.create
AIReturn(r) ==
    /\ bg[r].pc = "awaitAI"
    /\ \E out \in AiOutcomes :
         LET t == TryBlock(rev, bg[r].question, out)
         IN  bg' = [bg EXCEPT ![r] =
                     [@ EXCEPT !.pc = "awaitCreate",
                               !.aiFailed = (out.kind # "response"),
                               !.inCatch = (t.error # ""),
                               !.creates = 1,
                               !.params = WorkflowParams(req[r].body,
                                            IF t.error # ""
                                            THEN CatchContent(rev, t.error)
                                            ELSE t.content)]]
    /\ UNCHANGED <<rev, req, response, stages, waitUntil, aiCalls, workflows>>

\* A workflow instance as WORKFLOW.create({ id, params }) leaves it.
NewInstance(params) ==
    [status |-> "queued", params |-> params, attempts |-> 0,
     failures |-> 0, delays |-> <<>>, patches |-> <<>>]

\* WORKFLOW.create settles: it created the instance, or threw and created none
CreateReturn(r) ==
    /\ bg[r].pc = "awaitCreate"
    /\ \E created \in BOOLEAN :
         IF created
         THEN /\ workflows' = [workflows EXCEPT ![<<r, bg[r].creates>>] =
                                 NewInstance(bg[r].params)]
              /\ bg' = [bg EXCEPT ![r] = [@ EXCEPT !.pc = "settled"]]
         ELSE /\ workflows' = workflows
              /\ IF bg[r].inCatch
                 THEN \* the catch block's own create threw: the promise rejects
                      bg' = [bg EXCEPT ![r] = [@ EXCEPT !.pc = "rejected",
                                                        !.createThrew = @ + 1]]
                 ELSE bg' = [bg EXCEPT ![r] =
                              [@ EXCEPT !.inCatch = TRUE,
                                        !.createThrew = @ + 1,
                                        !.creates = 2,
                                        !.params = WorkflowParams(req[r].body,
                                                     CatchContent(rev, "CreateError"))]]
    /\ UNCHANGED <<rev, req, response, stages, waitUntil, aiCalls>>

\* ------------------------------------------------------------ the workflow
EditRequestLast(params) ==
    [application_id |-> params.application_id, token |-> params.token,
     content |-> Slice(params.content, 0 - MAX_DISCORD_MESSAGE_LENGTH,
                       Len_(params.content))]
\* The step's callback up to `await fetch(url, ...)`: the PATCH it issues.
EditRequest(params) ==
    [application_id |-> params.application_id, token |-> params.token,
     content |-> Slice(params.content, 0, MAX_DISCORD_MESSAGE_LENGTH)]

\* The callback throws when fetch rejects or `!response.ok`; the engine
\* fails an attempt that outlives `timeout`.
CallbackThrows(outcome) == outcome \in {"http_error", "network_error"}
AttemptFails(outcome) == CallbackThrows(outcome) \/ outcome = "timeout"

RetryDelayConstant(attempt) == RetriesDelay
\* retries: { limit, delay, backoff: 'exponential' }: the delay before the
\* retry that follows failed attempt number `attempt`.
RetryDelay(attempt) == RetriesDelay * Pow2(attempt - 1)

MayRetryOnceMore(attempt) == attempt <= RetriesLimit
\* retries: { limit }: another attempt follows failed attempt number `attempt`
\* while fewer than `limit` attempts have been made.
MayRetry(attempt) == attempt < RetriesLimit

StartableOnce(wf) == wf.status = "queued"
StartableWhileRunning(wf) == wf.status \in {"queued", "waiting", "running"}
\* step.do runs the callback when the instance starts and when the delay
\* after a failed attempt has passed, never while an attempt is running.
Startable(wf) == wf.status \in {"queued", "waiting"}

AttemptStartConsuming(w) ==
    /\ Startable(workflows[w])
    /\ workflows' = [workflows EXCEPT ![w] =
                       [@ EXCEPT !.status = "running",
                                 !.attempts = @ + 1,
                                 !.params = [@ EXCEPT !.content = Slice(@, 1, Len_(@))],
                                 !.patches = Append(@, EditRequest(workflows[w].params))]]
    /\ UNCHANGED <<rev, req, response, stages, waitUntil, aiCalls, bg>>
\* step.do starts an attempt of 'edit discord message'
AttemptStart(w) ==
    /\ Startable(workflows[w])
    /\ workflows' = [workflows EXCEPT ![w] =
                       [@ EXCEPT !.status = "running",
                                 !.attempts = @ + 1,
                                 !.patches = Append(@, EditRequest(workflows[w].params))]]
    /\ UNCHANGED <<rev, req, response, stages, waitUntil, aiCalls, bg>>

\* the PATCH settles: the step completes, or fails and is retried or given up
AttemptEnd(w) ==
    /\ workflows[w].status = "running"
    /\ \E outcome \in FetchOutcomes :
         LET f == workflows[w].failures + (IF outcome = "ok" THEN 0 ELSE 1)
         IN  workflows' = [workflows EXCEPT ![w] =
                IF ~AttemptFails(outcome)
                THEN [@ EXCEPT !.status = "complete", !.failures = f]
                ELSE IF MayRetry(workflows[w].attempts)
                THEN [@ EXCEPT !.status = "waiting", !.failures = f,
                               !.delays = Append(@, RetryDelay(workflows[w].attempts))]
                ELSE [@ EXCEPT !.status = "errored", !.failures = f]]
    /\ UNCHANGED <<rev, req, response, stages, waitUntil, aiCalls, bg>>

\* ------------------------------------------------------------ specification
Next ==
    \/ \E r \in Reqs : Fetch(r)
    \/ \E r \in Reqs : ReadBody(r)
    \/ \E r \in Reqs : VerifyReturn(r)
    \/ \E r \in Reqs : AIReturn(r)
    \/ \E r \in Reqs : CreateReturn(r)
    \/ \E w \in WfIds : AttemptStart(w)
    \/ \E w \in WfIds : AttemptEnd(w)

Spec == Init /\ [][Next]_vars

\* A step of a deferred task: of processAIResponse or of its workflow.
TaskNext ==
    \/ \E r \in Reqs : AIReturn(r)
    \/ \E r \in Reqs : CreateReturn(r)
    \/ \E w \in WfIds : AttemptStart(w)
    \/ \E w \in WfIds : AttemptEnd(w)
\* The worker when env.AI.run, WORKFLOW.create and every PATCH settle (the
\* step's timeout fails a PATCH that does not), and the workflow engine
\* starts a queued instance and a due retry.
SpecFair == Init /\ [][Next]_vars /\ WF_vars(TaskNext)
SpecPart000 == InitPart000 /\ [][Next]_vars
SpecAny == InitAny /\ [][Next]_vars

\* ------------------------------------------------------------ the claims
\* The handler of request r has returned its Response.
Responded(r) == req[r].pc = "done"
\* Request r arrived without one of the two signature headers.
LacksHeader(r) ==
    req[r].pc # "new" /\ (req[r].signature = UNDEF \/ req[r].timestamp = UNDEF)
\* The workflows created for request r.
Created(r) == {k \in {1, 2} : workflows[<<r, k>>].status # "absent"}
\* Nothing was registered, inferred, created or PATCHed for request r.
NoSideEffects(r) ==
    /\ waitUntil[r] = 0
    /\ aiCalls[r] = 0
    /\ bg[r].pc = "none" /\ bg[r].creates = 0
    /\ \A k \in {1, 2} : /\ workflows[<<r, k>>].status = "absent"
                         /\ workflows[<<r, k>>].patches = <<>>
\* Request r was verified and parsed to a command invocation named `name`.
Command(r, name) ==
    /\ Responded(r) /\ req[r].verified = "true"
    /\ req[r].body.kind = "object" /\ req[r].body.type = 2
    /\ req[r].body.hasData /\ req[r].body.name = name
\* The first option of request r has a non-empty value.
HasQuestionText(r) ==
    /\ req[r].body.options.defined
    /\ req[r].body.options.list # <<>>
    /\ req[r].body.options.list[1] \notin {UNDEF, ""}
IsDeferredResponse(resp) ==
    resp.status = 200 /\ resp.json /\ resp.type = 5 /\ ~resp.data
IsImmediate(resp, content) ==
    resp.status = 200 /\ resp.json /\ resp.type = 4 /\ resp.data
    /\ resp.content = content

\* C1 as stated: every request that lacks the X-Signature-Ed25519 or the
\* X-Signature-Timestamp header is answered 401, and nothing is inferred,
\* created or PATCHed for it.
C1_AnyMethod ==
    \A r \in Reqs :
        LacksHeader(r) => response[r].status = 401 /\ NoSideEffects(r)

\* C1 amended: every POST request that lacks the X-Signature-Ed25519 or the
\* X-Signature-Timestamp header is answered 401, and neither the inference
\* binding nor WORKFLOW.create nor the PATCH is invoked for it.
C1_MissingHeader401 ==
    \A r \in Reqs :
        (LacksHeader(r) /\ req[r].method = "POST")
            => response[r].status = 401 /\ NoSideEffects(r)

C1_Witness ==
    \E r \in Reqs :
        /\ req[r].method = "POST"
        /\ req[r].signature = "present" /\ req[r].timestamp = UNDEF
        /\ response[r].status = 401

\* C2: a request for which verifyKey returned false is answered 401.
C2_BadSignature401 ==
    \A r \in Reqs :
        req[r].verified = "false"
            => response[r].status = 401 /\ ~response[r].json

C2_Witness ==
    \E r \in Reqs : req[r].verified = "false" /\ response[r].status = 401

\* C3 as stated: a `question` invocation with a non-empty first option value
\* is answered {type: 5}, registers exactly one background task, and that
\* task results in exactly one workflow, which carries the application_id and
\* token of the interaction.
C3_ExactlyOneWorkflow ==
    \A r \in Reqs :
        (Command(r, "question") /\ HasQuestionText(r)) =>
            /\ IsDeferredResponse(response[r])
            /\ waitUntil[r] = 1
            /\ bg[r].pc \in {"settled", "rejected"} => Cardinality(Created(r)) = 1
            /\ \A k \in Created(r) :
                 /\ workflows[<<r, k>>].params.application_id
                      = req[r].body.application_id
                 /\ workflows[<<r, k>>].params.token = req[r].body.token

\* C3 amended: a `question` invocation with a non-empty first option value is
\* answered {type: 5} and registers exactly one background task, which calls
\* the inference binding once; the task creates at most one workflow, which
\* carries the application_id and token of the interaction: exactly one once
\* the task has settled, and none when the WORKFLOW.create call of its catch
\* block threw too.
C3_DeferredOnce ==
    \A r \in Reqs :
        (Command(r, "question") /\ HasQuestionText(r)) =>
            /\ IsDeferredResponse(response[r])
            /\ waitUntil[r] = 1 /\ aiCalls[r] = 1
            /\ Cardinality(Created(r)) <= 1
            /\ bg[r].pc = "settled" => Cardinality(Created(r)) = 1
            /\ bg[r].pc = "rejected" => (Created(r) = {} /\ bg[r].inCatch)
            /\ \A k \in Created(r) :
                 /\ workflows[<<r, k>>].params.application_id
                      = req[r].body.application_id
                 /\ workflows[<<r, k>>].params.token = req[r].body.token

C3_Witness ==
    \E r \in Reqs :
        /\ Command(r, "question") /\ HasQuestionText(r)
        /\ bg[r].pc = "settled"
        /\ Cardinality(Created(r)) = 1
        /\ \E k \in Created(r) : workflows[<<r, k>>].params.token = req[r].body.token

\* C4: a `question` invocation whose first option value is empty or missing
\* is answered at once with {type: 4} asking for a question, and nothing is
\* registered with ctx.waitUntil, inferred or created for it.
C4_PromptForQuestion ==
    \A r \in Reqs :
        (Command(r, "question") /\ ~HasQuestionText(r)) =>
            /\ IsImmediate(response[r], PleaseProvide)
            /\ NoSideEffects(r)

C4_Witness ==
    /\ \E r \in Reqs :
        /\ Command(r, "question") /\ req[r].body.options.list = <<"">>
        /\ IsImmediate(response[r], PleaseProvide)
    /\ \E r \in Reqs :
        /\ Command(r, "question") /\ ~req[r].body.options.defined
        /\ IsImmediate(response[r], PleaseProvide)

\* The PATCH requests issued so far, each with the workflow that issued it.
Patches == {<<w, i>> \in WfIds \X (1..RetriesLimit + 1) : i <= Len(workflows[w].patches)}
Patch(p) == workflows[p[1]].patches[p[2]]

\* C5: the content in the body of every PATCH is at most 2000 characters
\* long, and is the first 2000 characters of the task's content when that
\* content is longer.
C5_ContentAtMost2000 ==
    \A p \in Patches :
        LET sent == Patch(p).content
            full == workflows[p[1]].params.content
        IN  /\ sent.to - sent.from <= 2000
            /\ sent.lit = full.lit /\ sent.arg = full.arg /\ sent.from = full.from
            /\ (full.to - full.from > 2000) => (sent.to = full.from + 2000)
            /\ (full.to - full.from <= 2000) => (sent.to = full.to)

C5_Witness ==
    \E p \in Patches :
        /\ workflows[p[1]].params.content.to - workflows[p[1]].params.content.from > 2000
        /\ Patch(p).content.to - Patch(p).content.from = 2000
        /\ Patch(p).content.from = 0

\* The task of request r could not get an answer from the inference binding:
\* env.AI.run threw, or returned something without a `response` field.
InferenceFailed(r) == bg[r].pc \in {"awaitCreate", "settled", "rejected"} /\ bg[r].aiFailed
\* The fixed apology of section 4.3, step 3.
IsFixedApology(content) ==
    content = [lit |-> "Sorry, I encountered an error while processing your question.",
               arg |-> "", from |-> 0, to |-> 61]

\* C6: when the inference binding fails, every PATCH of the task carries the
\* fixed apology text: never an empty content, never the error's detail.
C6_FixedApology ==
    \A p \in Patches :
        InferenceFailed(p[1][1]) =>
            /\ IsFixedApology(Patch(p).content)
            /\ Patch(p).content.to > Patch(p).content.from
            /\ Patch(p).content.arg = ""

\* What C7 says of every state: a task that has completed saw fewer than 5
\* failed PATCHes, then one that succeeded, after delays of 500 ms, 1 s,
\* 2 s, ...; and a task whose last PATCH succeeded has completed.
C7_Completed ==
    \A w \in WfIds :
        LET wf == workflows[w]
        IN  /\ wf.status = "complete" =>
                /\ wf.failures < 5
                /\ wf.attempts = wf.failures + 1
                /\ Len(wf.patches) = wf.failures + 1
                /\ Len(wf.delays) = wf.failures
                /\ wf.failures >= 1 => wf.delays[1] = 500
                /\ \A i \in 1..(wf.failures - 1) :
                     wf.delays[i + 1] = 2 * wf.delays[i] /\ wf.delays[i + 1] > wf.delays[i]
            /\ wf.status \in {"waiting", "errored"} => wf.failures = wf.attempts
            /\ wf.status = "running" => wf.failures = wf.attempts - 1

\* What C7 says of every step: a completed task issues no further attempt.
C7_NoAttemptAfterSuccess ==
    \A w \in WfIds :
        workflows[w].status = "complete" => workflows'[w] = workflows[w]

\* C7: a PATCH that fails N < 5 times and then succeeds completes the task
\* after exactly N + 1 attempts, each retry delayed twice as long as the one
\* before it, starting at 500 ms, and no attempt follows the successful one.
C7_RetryThenSucceed == [](C7_Completed) /\ [][C7_NoAttemptAfterSuccess]_vars

C7_Witness ==
    \E w \in WfIds :
        /\ workflows[w].status = "complete"
        /\ workflows[w].failures = 4
        /\ workflows[w].delays = <<500, 1000, 2000, 4000>>

\* What C8 says of every state: a task whose PATCH failed 5 times has failed,
\* after exactly 5 attempts, and it is the only workflow of its request.
C8_Exhausted ==
    \A w \in WfIds :
        LET wf == workflows[w]
        IN  /\ wf.failures >= 5 => wf.status = "errored"
            /\ wf.status = "errored" =>
                /\ wf.failures = 5 /\ wf.attempts = 5 /\ Len(wf.patches) = 5
                /\ \A k \in {1, 2} :
                     k # w[2] => workflows[<<w[1], k>>].status = "absent"
                /\ bg[w[1]].pc = "settled"

\* What C8 says of every step: a failed task issues no further attempt, and
\* nothing else is created or sent for its request.
C8_NoAttemptAfterFailure ==
    \A w \in WfIds :
        workflows[w].status = "errored" =>
            /\ \A k \in {1, 2} : workflows'[<<w[1], k>>] = workflows[<<w[1], k>>]
            /\ bg'[w[1]] = bg[w[1]]
            /\ aiCalls'[w[1]] = aiCalls[w[1]]

\* C8: a task whose PATCH fails on all 5 attempts ends in a failure state; no
\* further attempt is issued for it and no other notification is attempted.
C8_GiveUpAfterFive == [](C8_Exhausted) /\ [][C8_NoAttemptAfterFailure]_vars

C8_Witness ==
    \E w \in WfIds :
        workflows[w].status = "errored" /\ Len(workflows[w].patches) = 5

\* C9: a verified request whose payload type is 1 is answered exactly
\* {type: 1}, whatever its other fields, and nothing is registered, inferred
\* or created for it.
C9_PingPong ==
    \A r \in Reqs :
        (Responded(r) /\ req[r].verified = "true" /\ req[r].body.kind = "object"
            /\ req[r].body.type = 1) =>
            /\ response[r] = [status |-> 200, json |-> TRUE, type |-> 1,
                              data |-> FALSE, content |-> NoStr, embeds |-> FALSE]
            /\ NoSideEffects(r)

C9_Witness ==
    \E r \in Reqs :
        /\ Responded(r) /\ req[r].verified = "true" /\ req[r].body.type = 1
        /\ req[r].body.hasData /\ req[r].body.name = "question"
        /\ req[r].body.options.list = <<"q1">> /\ req[r].body.username = "bob"
        /\ response[r].type = 1 /\ response[r].json

\* C10: a command other than `hello` and `question` is answered at once with
\* a {type: 4} "unknown command" message, never a server error, and `hello`
\* with a {type: 4} greeting; neither schedules a background task.
C10_HelloAndUnknown ==
    \A r \in Reqs :
        /\ Command(r, "hello") =>
             /\ response[r].status = 200 /\ response[r].json
             /\ response[r].type = 4 /\ response[r].data
             /\ response[r].content.lit = "Hello ${username}! (wave)"
             /\ NoSideEffects(r)
        /\ \A name \in Names \ {UNDEF, "", "hello", "question"} :
             Command(r, name) =>
                /\ response[r].status = 200 /\ response[r].json
                /\ response[r].type = 4 /\ response[r].data
                /\ response[r].content.lit = "Unknown command: ${command}"
                /\ response[r].content.arg = name
                /\ NoSideEffects(r)

C10_Witness ==
    /\ \E r \in Reqs : Command(r, "hello") /\ response[r].type = 4
    /\ \E r \in Reqs : Command(r, "bogus") /\ response[r].type = 4

\* C11: a verified request whose body is not valid JSON, or is a command
\* invocation without data.name, is answered with status 400.
C11_Malformed400 ==
    \A r \in Reqs :
        (Responded(r) /\ req[r].verified = "true"
            /\ \/ req[r].body.kind = "invalid"
               \/ /\ req[r].body.kind = "object" /\ req[r].body.type = 2
                  /\ (~req[r].body.hasData \/ req[r].body.name = UNDEF))
            => response[r].status = 400

\* C12: the body of a 500 response does not depend on the exception: any two
\* requests answered 500 get the same body.
C12_Generic500 ==
    \A r1, r2 \in Reqs :
        (Responded(r1) /\ Responded(r2)
            /\ response[r1].status = 500 /\ response[r2].status = 500)
            => response[r1].content = response[r2].content

\* The statuses a Response of the handler may carry.
ValidStatuses == {200, 400, 401, 405, 500}
C13_Handled ==
    \A r \in Reqs :
        /\ req[r].pc # "threw"
        /\ ~Responded(r) => response[r] = NoResponse
        /\ Responded(r) => response[r].status \in ValidStatuses
        /\ (Responded(r) /\ req[r].method # "POST") => response[r].status = 405
C13_ResponseFinal ==
    \A r \in Reqs :
        Responded(r) => (Responded(r)' /\ response'[r] = response[r])
InFlight(r) == {k \in {1, 2} : workflows[<<r, k>>].status = "running"}
\* env.AI.run has returned or thrown for the task of request r.
InferenceSettled(r) == bg[r].pc \in {"awaitCreate", "settled", "rejected"}
C14_InferenceFirst ==
    \A r \in Reqs :
        /\ ~InferenceSettled(r) =>
              /\ bg[r].creates = 0
              /\ \A k \in {1, 2} : /\ workflows[<<r, k>>].status = "absent"
                                   /\ workflows[<<r, k>>].patches = <<>>
        /\ Cardinality(InFlight(r)) <= 1
        /\ \A k \in {1, 2} :
              LET wf == workflows[<<r, k>>]
              IN  /\ Len(wf.patches) = wf.attempts
                  /\ wf.status = "running" => wf.failures = wf.attempts - 1
C14_OneAtATime ==
    \A w \in WfIds :
        Len(workflows'[w].patches) > Len(workflows[w].patches) =>
            /\ Len(workflows'[w].patches) = Len(workflows[w].patches) + 1
            /\ InferenceSettled(w[1])
            /\ InFlight(w[1]) = {}
            /\ workflows[w].failures = workflows[w].attempts
            /\ workflows[w].status # "complete"
\* C14: no workflow is created and no PATCH is issued for a task before
\* env.AI.run has returned or thrown; at most one PATCH of a task is in
\* flight, and an attempt starts only when every earlier attempt of the task
\* has failed.
C14_SequentialAttempts == []C14_InferenceFirst /\ [][C14_OneAtATime]_vars
\* A second attempt is in flight after the first one failed.
C14_Witness ==
    \E w \in WfIds :
        /\ workflows[w].status = "running"
        /\ workflows[w].attempts = 2 /\ workflows[w].failures = 1
        /\ InferenceSettled(w[1])

\* The position of a stage in the state machine of a request.
StageRank(stage) ==
    CASE stage = "received" -> 1 [] stage = "verified" -> 2
      [] stage = "parsed" -> 3 [] stage = "routed" -> 4 [] stage = "responded" -> 5
Passed(r, stage) == \E i \in 1..Len(stages[r]) : stages[r][i] = stage
\* C15: for every request, no handler runs and nothing is registered,
\* inferred, created or PATCHed unless verifyKey returned true for it; the
\* stages it passes are received, verified, parsed, routed, responded in that
\* order, and a request that left before being routed has no side effect.
C15_VerifiedFirst ==
    \A r \in Reqs :
        /\ \A i, j \in 1..Len(stages[r]) :
              i < j => StageRank(stages[r][i]) < StageRank(stages[r][j])
        /\ req[r].pc # "new" <=> Passed(r, "received")
        /\ Passed(r, "verified") <=> req[r].verified = "true"
        /\ Passed(r, "parsed") => Passed(r, "verified")
        /\ Passed(r, "routed") => Passed(r, "parsed")
        /\ Passed(r, "responded") <=> Responded(r)
        /\ ~Passed(r, "routed") => NoSideEffects(r)
        /\ req[r].verified # "true" => NoSideEffects(r)
\* One request passed all five stages and started a task while another one,
\* whose signature did not verify, was answered and left after `received`.
C15_Witness ==
    \E r1, r2 \in Reqs :
        /\ stages[r1] = <<"received", "verified", "parsed", "routed", "responded">>
        /\ aiCalls[r1] = 1 /\ Created(r1) # {}
        /\ req[r2].verified = "false" /\ stages[r2] = <<"received", "responded">>

\* The task of request r failed for good: its promise rejected, or its
\* workflow gave up.
TaskFailed(r) ==
    \/ bg[r].pc = "rejected"
    \/ \E k \in {1, 2} : workflows[<<r, k>>].status = "errored"
\* The state of request r and of its task is left alone by the step.
Untouched(r) ==
    /\ req'[r] = req[r] /\ response'[r] = response[r] /\ stages'[r] = stages[r]
    /\ waitUntil'[r] = waitUntil[r] /\ aiCalls'[r] = aiCalls[r] /\ bg'[r] = bg[r]
    /\ \A k \in {1, 2} : workflows'[<<r, k>>] = workflows[<<r, k>>]
C16_DeferredSent ==
    \A r \in Reqs :
        /\ bg[r].pc # "none" => (Responded(r) /\ IsDeferredResponse(response[r]))
        /\ (Command(r, "question") /\ HasQuestionText(r)) =>
              (IsDeferredResponse(response[r]) /\ bg[r].pc # "none")
C16_Isolated ==
    \A r \in Reqs :
        /\ Responded(r) => (response'[r] = response[r] /\ req'[r] = req[r])
        /\ ~Untouched(r) => \A other \in Reqs \ {r} : Untouched(other)
        /\ TaskFailed(r) => Untouched(r)
\* C16: a deferred `question` invocation is answered {type: 5} with status
\* 200 as soon as its task is registered, whatever becomes of the task; a
\* step of the task never changes the Response, never touches another
\* request or task, and a failed task stays failed without further steps.
C16_ResponseIndependent == []C16_DeferredSent /\ [][C16_Isolated]_vars
\* The task of one request failed for good after its deferred response, and
\* the task of another request completed its edit all the same.
C16_Witness ==
    \E r1, r2 \in Reqs :
        /\ r1 # r2
        /\ TaskFailed(r1) /\ bg[r1].aiFailed /\ IsDeferredResponse(response[r1])
        /\ IsDeferredResponse(response[r2])
        /\ \E k \in {1, 2} : workflows[<<r2, k>>].status = "complete"

\* The contents that do not depend on any question.
FixedContents == {CouldNotGenerate, Apology}
\* Content `content`, or what step.do's slice leaves of it, is derived from the
\* question of request r: a fixed text, or the answer generated for it.
DerivedFrom(content, r) ==
    \/ \E fixed \in FixedContents : content.lit = fixed.lit /\ content.arg = fixed.arg
    \/ /\ content.lit = "answer"
       /\ content.arg = FirstOptionValue(req[r].body)
       /\ content.arg = bg[r].question
\* C17: in every interleaving of concurrent `question` invocations, every
\* PATCH of a task goes to the application_id and token of the interaction
\* that created the task, with content derived from that interaction's own
\* question, and to no other request's application_id or token.
C17_OwnAddressAndContent ==
    \A p \in Patches :
        LET r == p[1][1]
            params == workflows[p[1]].params
        IN  /\ Patch(p).application_id = req[r].body.application_id
            /\ Patch(p).token = req[r].body.token
            /\ DerivedFrom(Patch(p).content, r)
            /\ params.application_id = req[r].body.application_id
            /\ params.token = req[r].body.token
            /\ DerivedFrom(params.content, r)
            /\ \A other \in Reqs \ {r} :
                  /\ Patch(p).token # req[other].body.token
                  /\ Patch(p).application_id # req[other].body.application_id
\* Two invocations with different questions have their PATCHes in flight at
\* the same time, each carrying the answer to its own question.
C17_Witness ==
    \E r1, r2 \in Reqs, k1, k2 \in {1, 2} :
        /\ r1 # r2
        /\ bg[r1].question = "q1" /\ bg[r2].question = "q2"
        /\ workflows[<<r1, k1>>].status = "running"
        /\ workflows[<<r2, k2>>].status = "running"
        /\ workflows[<<r1, k1>>].patches[1].content.arg = "q1"
        /\ workflows[<<r2, k2>>].patches[1].content.arg = "q2"

C18_SameRequest ==
    \A p \in Patches :
        /\ Patch(p) = workflows[p[1]].patches[1]
        /\ Patch(p) = EditRequest(workflows[p[1]].params)
C18_ParamsKept ==
    \A w \in WfIds :
        workflows[w].status # "absent" =>
            /\ workflows'[w].params = workflows[w].params
            /\ \A i \in 1..Len(workflows[w].patches) :
                  /\ i <= Len(workflows'[w].patches)
                  /\ workflows'[w].patches[i] = workflows[w].patches[i]
\* C18: every retry of a task's PATCH sends the same content to the same
\* application_id/token address as the first attempt, and the parameters of
\* the task never change once the workflow exists, so whichever attempt
\* succeeds leaves the same message.
C18_RetriesResendSame == []C18_SameRequest /\ [][C18_ParamsKept]_vars
\* An edit succeeded at its third attempt, after two failures.
C18_Witness ==
    \E w \in WfIds :
        /\ workflows[w].status = "complete"
        /\ workflows[w].attempts = 3 /\ workflows[w].failures = 2
        /\ workflows[w].patches[3] = workflows[w].patches[1]

\* The task of request r has terminated: its promise rejected, or its
\* workflow completed or gave up.
Terminated(r) ==
    \/ bg[r].pc = "rejected"
    \/ /\ bg[r].pc = "settled"
       /\ \E k \in {1, 2} : workflows[<<r, k>>].status \in {"complete", "errored"}
\* The task of request r ended with a successful edit.
EditSucceeded(r) ==
    \E k \in {1, 2} :
        /\ workflows[<<r, k>>].status = "complete"
        /\ workflows[<<r, k>>].attempts = workflows[<<r, k>>].failures + 1
\* The task of request r ended after the last allowed attempt had failed.
RetriesExhausted(r) ==
    \E k \in {1, 2} :
        /\ workflows[<<r, k>>].status = "errored"
        /\ workflows[<<r, k>>].attempts = RetriesLimit
        /\ workflows[<<r, k>>].failures = RetriesLimit
\* The task of request r ended without a workflow: the WORKFLOW.create call
\* of the catch block threw, and no PATCH was ever issued.
NeverCreated(r) ==
    /\ bg[r].pc = "rejected" /\ bg[r].inCatch
    /\ \A k \in {1, 2} : /\ workflows[<<r, k>>].status = "absent"
                         /\ workflows[<<r, k>>].patches = <<>>
C19_EventuallyTerminated ==
    \A r \in Reqs : (bg[r].pc = "awaitAI") ~> Terminated(r)
C19_OnlyAfterEdit ==
    \A r \in Reqs : Terminated(r) => (EditSucceeded(r) \/ RetriesExhausted(r))
\* C19 as stated: every task eventually terminates, and only after a
\* successful edit or after exhausting the edit retries.
C19_TerminatesAfterEdit == []C19_OnlyAfterEdit /\ C19_EventuallyTerminated
C19_TerminalStates ==
    \A r \in Reqs :
        Terminated(r) => (EditSucceeded(r) \/ RetriesExhausted(r) \/ NeverCreated(r))
\* C19, amended: when env.AI.run, every WORKFLOW.create call and every PATCH
\* settle, every task eventually terminates: after a successful edit, after
\* the fifth failed attempt, or, with no edit attempted, when the catch
\* block's WORKFLOW.create call threw.
C19_Terminates == []C19_TerminalStates /\ C19_EventuallyTerminated
\* One task ended without a workflow while another ended after exhausting
\* its retries.
C19_Witness ==
    \E r1, r2 \in Reqs :
        /\ Terminated(r1) /\ NeverCreated(r1)
        /\ Terminated(r2) /\ RetriesExhausted(r2)

C20_CreateCalls ==
    \A r \in Reqs :
        /\ bg[r].creates <= 2 /\ bg[r].createThrew <= bg[r].creates
        /\ bg[r].creates = 2 =>
              (bg[r].inCatch /\ (bg[r].aiFailed \/ bg[r].createThrew >= 1))
        /\ (bg[r].creates >= 1 /\ bg[r].inCatch) =>
              /\ bg[r].aiFailed \/ bg[r].createThrew >= 1
              /\ IsFixedApology(bg[r].params.content)
              /\ bg[r].params.application_id = req[r].body.application_id
              /\ bg[r].params.token = req[r].body.token
        /\ bg[r].pc = "rejected" => (bg[r].inCatch /\ bg[r].createThrew >= 1)
C20_NoThirdCall ==
    \A r \in Reqs :
        /\ bg'[r].creates >= bg[r].creates
        /\ bg[r].pc \in {"settled", "rejected"} => bg'[r] = bg[r]
\* C20: processAIResponse calls WORKFLOW.create at most twice per invocation;
\* the call of the catch block comes only after inference failed or the
\* first create call threw, carries the fixed apology with the interaction's
\* own application_id and token, and when it throws no further call is made.
C20_AtMostTwoCreates == []C20_CreateCalls /\ [][C20_NoThirdCall]_vars
\* Inference succeeded, the first create call threw, the catch block's call
\* threw too, and the task ended there.
C20_Witness ==
    \E r \in Reqs :
        /\ bg[r].pc = "rejected" /\ ~bg[r].aiFailed
        /\ bg[r].creates = 2 /\ bg[r].createThrew = 2
        /\ IsFixedApology(bg[r].params.content)

====
